---- MODULE Spec2Model ----
(***************************************************************************)
(* Model of the certificate service of certifeye-verity-chain:             *)
(*   src/src/lib/api.ts        CertificateAPI (remote first, localStorage  *)
(*                             fallback), initializeSampleData             *)
(*   src/unnamed/part_000      the Express/Mongoose backend the client     *)
(*                             talks to (routes and schema)                *)
(*   src/src/pages/VerifyCertificate.tsx  the issue form's handleSubmit    *)
(*                                                                         *)
(* Strings that the code takes apart (identifiers, endpoints, the text of  *)
(* Math.random().toString(36), Date.now().toString()) are sequences of     *)
(* one-character strings.  Free-text form fields are plain strings.        *)
(* Time is an abstract integer timeline: the two sample timestamps are     *)
(* its points 1 and 2 (in their real order) and the running clock moves    *)
(* over ClockStart..MaxClock.                                              *)
(***************************************************************************)
EXTENDS Integers, Sequences, FiniteSets, TLC

VARIABLES
    storage,    \* the localStorage entry under STORAGE_KEY
    remote,     \* the backend's certificates collection (insertion order)
    clock,      \* Date.now()
    calls,      \* the CertificateAPI calls made so far, in invocation order
    loaded,     \* TRUE once the api module has been evaluated
    backend,    \* "none": no backend runs, every fetch rejects (the demo
                \* setting); "deployed": the backend runs, a request may
                \* still fail
    toast,      \* title of the toast the issue form shows, "none" if none
    chain       \* the BlockchainService object (isConnected, account) and
                \* the calls made of it and of generateDataHash, in order

vars == <<storage, remote, clock, calls, loaded, backend, toast, chain>>

\* ------------------------------------------------------------------ bounds
\* Calls made in one behaviour without a backend, and with one.
MaxCalls == 3
MaxOnlineCalls == 2
\* Calls that may be suspended (at fetch or at the fallback delay) at once.
MaxInFlight == 2
\* First and last reading of the clock.
ClockStart == 3
MaxClock == ClockStart + MaxCalls
\* The calendar year the clock's readings lie in.
CurrentYear == 2026

\* ----------------------------------------------------------------- strings
Digits == <<"0", "1", "2", "3", "4", "5", "6", "7", "8", "9">>
LowerCase == <<"a", "b", "c", "d", "e", "f", "g", "h", "i", "j", "k", "l", "m",
               "n", "o", "p", "q", "r", "s", "t", "u", "v", "w", "x", "y", "z">>
UpperCase == <<"A", "B", "C", "D", "E", "F", "G", "H", "I", "J", "K", "L", "M",
               "N", "O", "P", "Q", "R", "S", "T", "U", "V", "W", "X", "Y", "Z">>

Min(a, b) == IF a <= b THEN a ELSE b

\* Number.prototype.toString() of a non-negative integer.
RECURSIVE IntToString(_)
IntToString(n) ==
    IF n < 10 THEN <<Digits[n + 1]>>
    ELSE IntToString(n \div 10) \o <<Digits[(n % 10) + 1]>>

\* String.prototype.toUpperCase(), character by character.
UpperChar(ch) ==
    IF \E i \in 1..26 : LowerCase[i] = ch
    THEN UpperCase[CHOOSE i \in 1..26 : LowerCase[i] = ch]
    ELSE ch

ToUpperCase(s) == [i \in 1..Len(s) |-> UpperChar(s[i])]

\* String.prototype.substring(from, to) for 0 <= from <= to (0-based, to
\* exclusive, both clamped to the length).
Substring(s, from, to) == SubSeq(s, Min(from, Len(s)) + 1, Min(to, Len(s)))

\* endpoint.split('/').pop(): the text after the last '/', the whole text
\* when there is none.
RECURSIVE LastSegment(_)
LastSegment(s) ==
    IF s = <<>> THEN <<>>
    ELSE IF s[Len(s)] = "/" THEN <<>>
    ELSE LastSegment(SubSeq(s, 1, Len(s) - 1)) \o <<s[Len(s)]>>

StartsWith(s, p) == Len(s) >= Len(p) /\ SubSeq(s, 1, Len(p)) = p

\* ------------------------------------------------------- endpoints and keys
CertificatesEndpoint == <<"/", "c", "e", "r", "t", "i", "f", "i", "c", "a", "t", "e", "s">>
VerifyPrefix == CertificatesEndpoint \o <<"/", "v", "e", "r", "i", "f", "y", "/">>
HealthEndpoint == <<"/", "h", "e", "a", "l", "t", "h">>

\* ------------------------------------------------------------ random source
\* Math.random().toString(36): "0." and the base-36 digits of the fraction.
\* One draw with more than six digits, one short draw (0.5 is "0.i").
RandomTexts ==
    { <<"0", ".", "k", "3", "x", "9", "q", "z", "7">>,
      <<"0", ".", "i">> }

\* The 64 draws of Math.floor(Math.random() * 16) that make one hash, taken
\* together as one draw; the hash text is '0x' and the digits drawn.
HashDraws == {"d1"}

\* '0x' + Array.from({length: 64}, ...toString(16)).join('')
generateBlockchainHash(draw) == <<"0x", draw>>

\* new Date().getFullYear() at clock reading t.
getFullYear(t) == CurrentYear

\* `CERT-${year}-${random}`
generateCertificateId(t, rnd) ==
    <<"C", "E", "R", "T", "-">> \o IntToString(getFullYear(t)) \o <<"-">>
        \o ToUpperCase(Substring(rnd, 2, 8))

\* ------------------------------------------------------------------- dates
\* Date.prototype.toISOString() of timeline point t, and the reading of such
\* a text by new Date(text).getTime().
toISOString(t) == <<"ISO", t>>
getTime(iso) == iso[2]

\* ----------------------------------------------------------------- records
\* The keys of a Certificate in the order the object literal lists them.
FieldOrder ==
    <<"_id", "certificateId", "recipientName", "recipientEmail", "courseName",
      "issuerName", "completionDate", "description", "issuedAt",
      "blockchainHash", "isValid">>

\* An IssueCertificateRequest: the six text fields of the issue form.
IssueCertificateRequest(name, course, issuer) ==
    [recipientName |-> name, recipientEmail |-> "", courseName |-> course,
     issuerName |-> issuer, completionDate |-> "", description |-> ""]

\* The requests issue is called with: two with every required field, one
\* without a recipient name.
IssueInputs ==
    { IssueCertificateRequest("A", "B", "C"),
      IssueCertificateRequest("Z", "B", "C"),
      IssueCertificateRequest("", "B", "C") }

\* The contents of the issue form when it is submitted.
FormInputs ==
    IssueInputs \cup { IssueCertificateRequest("A", "", "C"),
                       IssueCertificateRequest("A", "B", "") }

\* The requests of the overlapping calls.
OverlapInputs ==
    { IssueCertificateRequest("A", "B", "C"),
      IssueCertificateRequest("Z", "B", "C") }

\* JSON.stringify of one object: its key/value pairs in key order.
StringifyObject(o) ==
    LET keys == SelectSeq(FieldOrder, LAMBDA k : k \in DOMAIN o)
    IN  [i \in 1..Len(keys) |-> <<keys[i], o[keys[i]]>>]

\* JSON.parse of one object's text: the last pair of a key gives its value.
ParseObject(p) ==
    [k \in {p[i][1] : i \in 1..Len(p)} |->
        p[CHOOSE i \in 1..Len(p) :
            /\ p[i][1] = k
            /\ \A j \in (i + 1)..Len(p) : p[j][1] # k][2]]

\* JSON.stringify / JSON.parse of an array of objects.
JSONStringify(list) == [i \in 1..Len(list) |-> StringifyObject(list[i])]
JSONParse(json) == [i \in 1..Len(json) |-> ParseObject(json[i])]

\* ------------------------------------------------------------ localStorage
\* What localStorage.getItem(STORAGE_KEY) gives: null, or a text; a text
\* either is the JSON of an array of objects or does not parse.
NoItem == [kind |-> "null"]
UnparseableText == [kind |-> "text", parses |-> FALSE, json |-> <<>>]
ArrayText(list) == [kind |-> "text", parses |-> TRUE, json |-> JSONStringify(list)]

\* A load that does not read the entry again: the list as it was read when
\* the module loaded (the seeded records), whatever was appended since.
getCertificatesLoadedOnce(item) ==
    IF item.kind = "null" THEN [ok |-> TRUE, value |-> <<>>]
    ELSE IF ~item.parses THEN [ok |-> FALSE, value |-> <<>>]
    ELSE [ok |-> TRUE, value |-> SubSeq(JSONParse(item.json), 1, Min(2, Len(item.json)))]

\* JSON.parse(localStorage.getItem(STORAGE_KEY) || '[]'): the list, or the
\* SyntaxError JSON.parse throws.
getCertificatesFromStorage(item) ==
    IF item.kind = "null" THEN [ok |-> TRUE, value |-> <<>>]
    ELSE IF ~item.parses THEN [ok |-> FALSE, value |-> <<>>]
    ELSE [ok |-> TRUE, value |-> JSONParse(item.json)]

\* A save that enforces unique certificateIds: a record whose certificateId
\* an earlier record of the list has is left out.
saveDistinctCertificateIds(list) ==
    LET keep == SelectSeq([k \in 1..Len(list) |-> k],
                          LAMBDA k : \A j \in 1..(k - 1) :
                                        list[j].certificateId # list[k].certificateId)
    IN  ArrayText([i \in 1..Len(keep) |-> list[keep[i]]])

\* A save that keeps the store newest first: the last record of the list
\* (the one just pushed) is written in front of the others.
saveNewestFirst(list) ==
    ArrayText(IF list = <<>> THEN <<>>
              ELSE <<list[Len(list)]>> \o SubSeq(list, 1, Len(list) - 1))

\* A save that writes the last record alone instead of the whole list.
saveLastCertificate(list) ==
    ArrayText(IF list = <<>> THEN <<>> ELSE <<list[Len(list)]>>)

\* localStorage.setItem(STORAGE_KEY, JSON.stringify(certificates))
saveCertificatesToStorage(list) == ArrayText(list)

\* ------------------------------------------------------------- sample data
Sample1IssuedAt == 1
Sample2IssuedAt == 2

Sample1Id == <<"C", "E", "R", "T", "-", "2", "0", "2", "4", "-", "S", "A", "M", "P", "L", "E", "1">>
Sample2Id == <<"C", "E", "R", "T", "-", "2", "0", "2", "4", "-", "S", "A", "M", "P", "L", "E", "2">>

sampleCertificates(draw1, draw2) ==
    << [_id |-> <<"1">>, certificateId |-> Sample1Id,
        recipientName |-> "John Doe", recipientEmail |-> "john.doe@example.com",
        courseName |-> "Full Stack Web Development", issuerName |-> "Tech Academy",
        completionDate |-> "2024-01-15", description |-> "Completed comprehensive full stack development course covering React, Node.js, MongoDB, and Express.js",
        issuedAt |-> toISOString(Sample1IssuedAt),
        blockchainHash |-> generateBlockchainHash(draw1), isValid |-> TRUE],
       [_id |-> <<"2">>, certificateId |-> Sample2Id,
        recipientName |-> "Jane Smith", recipientEmail |-> "jane.smith@example.com",
        courseName |-> "Blockchain Development Fundamentals", issuerName |-> "Crypto Institute",
        completionDate |-> "2024-02-28", description |-> "Mastered blockchain development using Ethereum, Solidity, and smart contract deployment",
        issuedAt |-> toISOString(Sample2IssuedAt),
        blockchainHash |-> generateBlockchainHash(draw2), isValid |-> TRUE] >>

\* ----------------------------------------------------------------- sorting
\* The comparator with its operands exchanged: oldest first.
compareIssuedAtAscending(a, b) == getTime(a.issuedAt) - getTime(b.issuedAt)

\* The comparator of getAll: new Date(b.issuedAt).getTime() -
\* new Date(a.issuedAt).getTime().
compareIssuedAt(a, b) == getTime(b.issuedAt) - getTime(a.issuedAt)

\* Array.prototype.sort with that comparator (a stable sort): x goes after
\* every element the comparator does not put behind it.
RECURSIVE InsertSorted(_, _)
InsertSorted(sorted, x) ==
    IF sorted = <<>> THEN <<x>>
    ELSE IF compareIssuedAt(Head(sorted), x) <= 0
         THEN <<Head(sorted)>> \o InsertSorted(Tail(sorted), x)
         ELSE <<x>> \o sorted

RECURSIVE sortByIssuedAt(_)
sortByIssuedAt(list) ==
    IF list = <<>> THEN <<>>
    ELSE InsertSorted(sortByIssuedAt(SubSeq(list, 1, Len(list) - 1)), list[Len(list)])

\* A find that compares the record's _id instead of its certificateId.
findByRecordId(list, id) ==
    IF \E i \in 1..Len(list) : list[i]._id = id
    THEN CHOOSE i \in 1..Len(list) :
            /\ list[i]._id = id
            /\ \A j \in 1..(i - 1) : list[j]._id # id
    ELSE 0

\* A find whose predicate assigns instead of comparing (always truthy): the
\* first record, whatever its certificateId.
findFirstRecord(list, id) == IF list = <<>> THEN 0 ELSE 1

\* A findLast: the index of the last match, 0 when there is none.
findLastByCertificateId(list, id) ==
    IF \E i \in 1..Len(list) : list[i].certificateId = id
    THEN CHOOSE i \in 1..Len(list) :
            /\ list[i].certificateId = id
            /\ \A j \in (i + 1)..Len(list) : list[j].certificateId # id
    ELSE 0

\* Array.prototype.find(cert => cert.certificateId === id): the index of the
\* first match, 0 when there is none.
findByCertificateId(list, id) ==
    IF \E i \in 1..Len(list) : list[i].certificateId = id
    THEN CHOOSE i \in 1..Len(list) :
            /\ list[i].certificateId = id
            /\ \A j \in 1..(i - 1) : list[j].certificateId # id
    ELSE 0

\* ------------------------------------------------------------- the backend
\* The schema's required, non-empty text fields.
schemaValid(data) ==
    data.recipientName # "" /\ data.courseName # "" /\ data.issuerName # ""

\* app.post('/api/certificates'): the id and hash are generated, the document
\* is saved (required fields, unique certificateId) and {certificateId} is
\* the answer; a failed save answers 400.
serverIssue(db, data, t, rnd, draw) ==
    LET certificateId == generateCertificateId(t, rnd)
        doc == [_id |-> <<"o">> \o IntToString(Len(db) + 1),
                certificateId |-> certificateId,
                recipientName |-> data.recipientName,
                recipientEmail |-> data.recipientEmail,
                courseName |-> data.courseName,
                issuerName |-> data.issuerName,
                completionDate |-> data.completionDate,
                description |-> data.description,
                issuedAt |-> toISOString(t),
                blockchainHash |-> generateBlockchainHash(draw),
                isValid |-> TRUE]
    IN  IF schemaValid(data) /\ findByCertificateId(db, certificateId) = 0
        THEN [status |-> 200, body |-> [certificateId |-> certificateId],
              db |-> Append(db, doc), wrote |-> {certificateId}]
        ELSE [status |-> 400, body |-> <<>>, db |-> db, wrote |-> {}]

\* app.get('/api/certificates/verify/:id'): the route matches one non-empty
\* path segment; findOne, 404 when there is no such document.
serverVerify(db, id) ==
    LET i == findByCertificateId(db, id)
    IN  IF id # <<>> /\ (\A k \in 1..Len(id) : id[k] # "/") /\ i # 0
        THEN [status |-> 200, body |-> db[i], db |-> db, wrote |-> {}]
        ELSE [status |-> 404, body |-> <<>>, db |-> db, wrote |-> {}]

\* app.get('/api/certificates'): find().sort({issuedAt: -1})
serverList(db) ==
    [status |-> 200, body |-> sortByIssuedAt(db), db |-> db, wrote |-> {}]

\* app.get('/api/health')
serverHealth(db, t) ==
    [status |-> 200, body |-> [status |-> "OK", timestamp |-> toISOString(t)],
     db |-> db, wrote |-> {}]

\* The backend's answer to the request of one call.
serverHandle(call, db, t, rnd, draw) ==
    CASE call.op = "issue" -> serverIssue(db, ParseObject(StringifyObject(call.arg)), t, rnd, draw)
      [] call.op = "verify" -> serverVerify(db, call.arg)
      [] call.op = "getAll" -> serverList(db)
      [] call.op = "healthCheck" -> serverHealth(db, t)

\* ------------------------------------------------------------------- calls
Pending == [kind |-> "pending"]
Ok(v) == [kind |-> "ok", value |-> v]
Failed(msg) == [kind |-> "error", message |-> msg]

NotFoundMessage == "Certificate not found"
UnknownEndpointMessage == "Unknown endpoint"
SyntaxErrorMessage == "SyntaxError: JSON.parse"

\* One call of an API method.  pc is where the call stands: "fetch" (awaiting
\* fetch in makeRequest), "delay" (awaiting delay(1000) in
\* fallbackToLocalStorage) or "done" (settled).  The other fields record
\* what happened to the call: how the request ended, the writes made for it,
\* the ids generated for it, the clock reading when its delay began, what
\* the fallback found in localStorage (and the list a getAll loaded), and
\* which calls had settled when it was invoked.
NewCall(op, arg) ==
    [op |-> op, arg |-> arg, pc |-> "fetch", fetched |-> "pending",
     result |-> Pending, remoteWrote |-> FALSE, localWrote |-> 0, since |-> 0,
     minted |-> {}, load |-> "none", seen |-> <<>>,
     prior |-> {i \in 1..Len(calls) : calls[i].pc = "done"}]

InFlight == {i \in 1..Len(calls) : calls[i].pc # "done"}

CanInvoke ==
    /\ loaded
    /\ Len(calls) < (IF backend = "none" THEN MaxCalls ELSE MaxOnlineCalls)
    /\ Cardinality(InFlight) < MaxInFlight

\* The endpoint a call requests.
endpointOf(call) ==
    CASE call.op = "issue" -> CertificatesEndpoint
      [] call.op = "verify" -> VerifyPrefix \o call.arg
      [] call.op = "getAll" -> CertificatesEndpoint
      [] call.op = "healthCheck" -> HealthEndpoint

\* options.method of a call's request.
methodOf(call) == IF call.op = "issue" THEN "POST" ELSE "GET"

\* The certificate ids verify is called with.
SlashId == <<"x", "/">> \o Sample2Id
VerifyIds ==
    {Sample1Id, SlashId}
        \cup {generateCertificateId(ClockStart, rnd) : rnd \in RandomTexts}

\* ----------------------------------------------------------- API methods
\* issue(data): makeRequest('/certificates', {method: 'POST', body}).
issue(data) ==
    /\ CanInvoke
    /\ calls' = Append(calls, NewCall("issue", data))
    /\ UNCHANGED <<storage, remote, clock, loaded, backend, toast, chain>>

\* verify(certificateId): makeRequest(`/certificates/verify/${certificateId}`).
verify(id) ==
    /\ CanInvoke
    /\ calls' = Append(calls, NewCall("verify", id))
    /\ UNCHANGED <<storage, remote, clock, loaded, backend, toast, chain>>

\* getAll(): makeRequest('/certificates').
getAll ==
    /\ CanInvoke
    /\ calls' = Append(calls, NewCall("getAll", <<>>))
    /\ UNCHANGED <<storage, remote, clock, loaded, backend, toast, chain>>

\* healthCheck(): makeRequest('/health') inside try/catch.
healthCheck ==
    /\ CanInvoke
    /\ calls' = Append(calls, NewCall("healthCheck", <<>>))
    /\ UNCHANGED <<storage, remote, clock, loaded, backend, toast, chain>>

\* ------------------------------------------------------------ the issue form
\* The test with issuerName left out.
missingRecipientOrCourse(formData) ==
    formData.recipientName = "" \/ formData.courseName = ""

\* handleSubmit's test of the required fields.
missingInformation(formData) ==
    formData.recipientName = "" \/ formData.courseName = "" \/ formData.issuerName = ""

\* IssueCertificate.handleSubmit: a toast and return when a required field
\* is empty, issueMutation.mutate(formData) otherwise.
handleSubmit(formData) ==
    /\ loaded
    /\ IF missingInformation(formData)
       THEN /\ toast' = "Missing Information"
            /\ UNCHANGED <<storage, remote, clock, calls, loaded, backend, chain>>
       ELSE /\ CanInvoke
            /\ calls' = Append(calls, NewCall("issue", formData))
            /\ UNCHANGED <<storage, remote, clock, loaded, backend, toast, chain>>

\* ------------------------------------------------------------- makeRequest
Settle(c, fields) == calls' = [calls EXCEPT ![c] = fields @@ calls[c]]

\* fetch rejects: the backend is unreachable and never sees the request.
\* makeRequest's catch hands the call to fallbackToLocalStorage.
FetchRejects(c) ==
    /\ c \in 1..Len(calls)
    /\ calls[c].pc = "fetch"
    /\ Settle(c, [pc |-> "delay", fetched |-> "unreachable", since |-> clock])
    /\ UNCHANGED <<storage, remote, clock, loaded, backend, toast, chain>>

\* The backend handles the request and its answer is read: a 2xx answer is
\* the call's result, any other status throws inside the try and the catch
\* hands the call to fallbackToLocalStorage.
ResponseRead(c) ==
    /\ backend = "deployed"
    /\ c \in 1..Len(calls)
    /\ calls[c].pc = "fetch"
    /\ \E rnd \in RandomTexts, draw \in HashDraws :
        LET r == serverHandle(calls[c], remote, clock, rnd, draw)
        IN  /\ remote' = r.db
            /\ IF r.status = 200
               THEN Settle(c, [pc |-> "done", fetched |-> "ok", result |-> Ok(r.body), since |-> 0,
                               remoteWrote |-> r.wrote # {}, minted |-> r.wrote])
               ELSE Settle(c, [pc |-> "delay", since |-> clock,
                               fetched |-> IF r.status = 404 THEN "status404" ELSE "status400"])
    /\ UNCHANGED <<storage, clock, loaded, backend, toast, chain>>

\* The backend handles the request but response.json() rejects (the body
\* that arrives is not JSON): the catch hands the call to
\* fallbackToLocalStorage although the backend has acted.
ResponseUnreadable(c) ==
    /\ backend = "deployed"
    /\ c \in 1..Len(calls)
    /\ calls[c].pc = "fetch"
    /\ \E rnd \in RandomTexts, draw \in HashDraws :
        LET r == serverHandle(calls[c], remote, clock, rnd, draw)
        IN  /\ r.status = 200
            /\ remote' = r.db
            /\ Settle(c, [pc |-> "delay", fetched |-> "unreadable", since |-> clock,
                          remoteWrote |-> r.wrote # {}, minted |-> r.wrote])
    /\ UNCHANGED <<storage, clock, loaded, backend, toast, chain>>

\* ---------------------------------------------------- fallbackToLocalStorage
\* The record with the request body spread last, over every other field.
newCertificateSpreadLast(data, certificateId, t, draw) ==
    data
        @@ [issuedAt |-> toISOString(t),
            blockchainHash |-> generateBlockchainHash(draw),
            isValid |-> TRUE]
        @@ [_id |-> IntToString(t), certificateId |-> certificateId]

\* The record a fallback issue builds: _id and certificateId, then the
\* request body's fields spread over them, then issuedAt, blockchainHash and
\* isValid.
newCertificate(data, certificateId, t, draw) ==
    [issuedAt |-> toISOString(t),
     blockchainHash |-> generateBlockchainHash(draw),
     isValid |-> TRUE]
        @@ data
        @@ [_id |-> IntToString(t), certificateId |-> certificateId]

\* A fallback whose getAll writes the list back after sorting it in place.
fallbackWritingSortedList(call, item, t, rnd, draw) ==
    LET endpoint == endpointOf(call)
        method == methodOf(call)
        certificates == getCertificatesFromStorage(item)
        none == [storage |-> item, appended |-> 0, minted |-> {},
                 load |-> IF item.kind = "null" THEN "null"
                          ELSE IF item.parses THEN "array" ELSE "unparseable",
                 seen |-> <<>>]
    IN  IF ~certificates.ok
            THEN [result |-> Failed(SyntaxErrorMessage)] @@ none
        ELSE IF endpoint = CertificatesEndpoint /\ method = "POST"
            THEN LET data == ParseObject(StringifyObject(call.arg))
                     certificateId == generateCertificateId(t, rnd)
                     cert == newCertificate(data, certificateId, t, draw)
                 IN  [result |-> Ok([certificateId |-> certificateId]),
                      storage |-> saveCertificatesToStorage(Append(certificates.value, cert)),
                      appended |-> 1, minted |-> {certificateId}] @@ none
        ELSE IF StartsWith(endpoint, VerifyPrefix)
            THEN LET i == findByCertificateId(certificates.value, LastSegment(endpoint))
                 IN  IF i = 0
                     THEN [result |-> Failed(NotFoundMessage)] @@ none
                     ELSE [result |-> Ok(certificates.value[i])] @@ none
        ELSE IF endpoint = CertificatesEndpoint
            THEN [result |-> Ok(sortByIssuedAt(certificates.value)),
                  storage |-> saveCertificatesToStorage(sortByIssuedAt(certificates.value)),
                  seen |-> certificates.value] @@ none
        ELSE [result |-> Failed(UnknownEndpointMessage)] @@ none

\* What fallbackToLocalStorage does once its delay is over, for the request
\* of `call`, with `item` in localStorage: the item it leaves, the result
\* (a value or a thrown error) and what it loaded and appended.
fallbackToLocalStorage(call, item, t, rnd, draw) ==
    LET endpoint == endpointOf(call)
        method == methodOf(call)
        certificates == getCertificatesFromStorage(item)
        none == [storage |-> item, appended |-> 0, minted |-> {},
                 load |-> IF item.kind = "null" THEN "null"
                          ELSE IF item.parses THEN "array" ELSE "unparseable",
                 seen |-> <<>>]
    IN  IF ~certificates.ok
            THEN [result |-> Failed(SyntaxErrorMessage)] @@ none
        ELSE IF endpoint = CertificatesEndpoint /\ method = "POST"
            THEN LET data == ParseObject(StringifyObject(call.arg))
                     certificateId == generateCertificateId(t, rnd)
                     cert == newCertificate(data, certificateId, t, draw)
                 IN  [result |-> Ok([certificateId |-> certificateId]),
                      storage |-> saveCertificatesToStorage(Append(certificates.value, cert)),
                      appended |-> 1, minted |-> {certificateId}] @@ none
        ELSE IF StartsWith(endpoint, VerifyPrefix)
            THEN LET i == findByCertificateId(certificates.value, LastSegment(endpoint))
                 IN  IF i = 0
                     THEN [result |-> Failed(NotFoundMessage)] @@ none
                     ELSE [result |-> Ok(certificates.value[i])] @@ none
        ELSE IF endpoint = CertificatesEndpoint
            THEN [result |-> Ok(sortByIssuedAt(certificates.value)),
                  seen |-> certificates.value] @@ none
        ELSE [result |-> Failed(UnknownEndpointMessage)] @@ none

\* healthCheck without its try/catch: makeRequest's outcome as it is.
healthCheckUncaught(result, t) == result

\* healthCheck's catch: any error of makeRequest becomes the sentinel.
healthCheckCatch(result, t) ==
    IF result.kind = "error"
    THEN Ok([status |-> "localStorage_fallback", timestamp |-> toISOString(t)])
    ELSE result

\* The delay of a call's fallback is over (time has passed since it began)
\* and the fallback runs to its end.
\* A fallback that requests the backend once more when the local store gave
\* an error, which the source never does.
FallbackRetrying(c) ==
    /\ c \in 1..Len(calls)
    /\ calls[c].pc = "delay"
    /\ clock > calls[c].since
    /\ \E rnd \in RandomTexts, draw \in HashDraws :
        LET f == fallbackToLocalStorage(calls[c], storage, clock, rnd, draw)
        IN  /\ storage' = f.storage
            /\ IF f.result.kind = "error" /\ calls[c].op # "healthCheck"
               THEN Settle(c, [pc |-> "fetch", fetched |-> "pending", since |-> 0])
               ELSE Settle(c, [pc |-> "done", since |-> 0,
                               result |-> IF calls[c].op = "healthCheck"
                                          THEN healthCheckCatch(f.result, clock)
                                          ELSE f.result,
                               localWrote |-> f.appended,
                               minted |-> calls[c].minted \cup f.minted,
                               load |-> f.load, seen |-> f.seen])
    /\ UNCHANGED <<remote, clock, loaded, backend, toast, chain>>

Fallback(c) ==
    /\ c \in 1..Len(calls)
    /\ calls[c].pc = "delay"
    /\ clock > calls[c].since
    /\ \E rnd \in RandomTexts, draw \in HashDraws :
        LET f == fallbackToLocalStorage(calls[c], storage, clock, rnd, draw)
        IN  /\ storage' = f.storage
            /\ Settle(c, [pc |-> "done", since |-> 0,
                          result |-> IF calls[c].op = "healthCheck"
                                     THEN healthCheckCatch(f.result, clock)
                                     ELSE f.result,
                          localWrote |-> f.appended,
                          minted |-> calls[c].minted \cup f.minted,
                          load |-> f.load, seen |-> f.seen])
    /\ UNCHANGED <<remote, clock, loaded, backend, toast, chain>>

\* ------------------------------------------------------------ module load
\* A seeding that does not look at what is stored: the samples are added to
\* the list at every run.
initializeSampleDataUnconditionally ==
    /\ storage' = IF getCertificatesFromStorage(storage).ok
                  THEN saveCertificatesToStorage(
                          getCertificatesFromStorage(storage).value
                              \o (CHOOSE s \in {sampleCertificates(d1, d2) :
                                      d1 \in HashDraws, d2 \in HashDraws} : TRUE))
                  ELSE storage
    /\ loaded' = TRUE
    /\ UNCHANGED <<remote, clock, calls, backend, toast, chain>>

\* initializeSampleData(): the two samples are stored when getItem gives
\* nothing.
initializeSampleData ==
    /\ storage' = IF storage.kind = "null"
                  THEN CHOOSE t \in {saveCertificatesToStorage(sampleCertificates(d1, d2)) :
                                        d1 \in HashDraws, d2 \in HashDraws} : TRUE
                  ELSE storage
    /\ loaded' = TRUE
    /\ UNCHANGED <<remote, clock, calls, backend, toast, chain>>

\* Time passes.  Only running code reads the clock, and the only thing that
\* waits for it is a fallback's delay: the clock is advanced when a delay
\* that began at the present reading is pending.
Tick ==
    /\ clock < MaxClock
    /\ \E c \in 1..Len(calls) : calls[c].pc = "delay" /\ calls[c].since = clock
    /\ clock' = clock + 1
    /\ UNCHANGED <<storage, remote, calls, loaded, backend, toast, chain>>

\* ------------------------------------------------------- BlockchainService
HexDigits == <<"0", "1", "2", "3", "4", "5", "6", "7", "8", "9",
               "a", "b", "c", "d", "e", "f">>

\* The object before its constructor body runs: the field initializers
\* (isConnected = false, account = null), and no call made yet.
Null == [kind |-> "null"]
BlockchainServiceFields == [isConnected |-> FALSE, account |-> Null, log |-> <<>>]

\* A lookup the source does not make: null unless the certificate's issue
\* on chain has returned.
verifyIssuedCertificateOnChain(self, certificateId, draw, now) ==
    IF \E k \in 1..Len(self.log) :
           /\ self.log[k].op = "issueCertificateOnChain"
           /\ self.log[k].pc = "done"
           /\ self.log[k].arg = certificateId
    THEN [certificateId |-> certificateId,
          hash          |-> <<"0x", draw>>,
          timestamp     |-> now,
          issuer        |-> "Verified Issuer",
          isValid       |-> TRUE]
    ELSE [kind |-> "null"]

AccountLength == 40
HashLength == 64
MaxChainCalls == 3

\* Math.floor(Math.random() * 16) drawn once per digit: two of the possible
\* outcomes of the 40 draws of simulateConnection.
AccountDraws == {[i \in 1..AccountLength |-> 0],
                 [i \in 1..AccountLength |-> (7 * i) % 16]}

\* The 64 random digits of a transaction or certificate hash, named by draw.
ChainHashDraws == {"t1", "t2"}
randomHash(draw) == <<"0x", draw>>

\* Math.floor(Math.random() * 50): the least and the greatest outcome.
GasPriceDraws == {0, 49}
GasFunctionNames == {"issueCertificate", "verifyCertificate", "revokeCertificate"}
ChainIds == {Sample1Id, Sample2Id}

simulateConnection(self, draw) ==
    [self EXCEPT !.isConnected = TRUE,
                 !.account = <<"0", "x">> \o
                             [i \in 1..AccountLength |-> HexDigits[draw[i] + 1]]]

isWalletConnected(self) == self.isConnected
getAccount(self) == self.account

\* What verifyCertificateOnChain resolves with once its timer has fired.
verifyCertificateOnChain(self, certificateId, draw, now) ==
    [certificateId |-> certificateId,
     hash          |-> randomHash(draw),
     timestamp     |-> now,
     issuer        |-> "Verified Issuer",
     isValid       |-> TRUE]

getGasEstimate(functionName) ==
    CASE functionName = "issueCertificate"  -> 150000
      [] functionName = "verifyCertificate" -> 50000
      [] OTHER                              -> 100000

\* (gasPriceGwei * 1e9).toString(): the digits of the gwei figure and nine zeros.
getCurrentGasPrice(draw) ==
    IntToString(draw + 10) \o [i \in 1..9 |-> "0"]

\* ---- generateDataHash
Punctuation == << <<" ", 32>>, <<"\"", 34>>, <<",", 44>>, <<"-", 45>>,
                  <<":", 58>>, <<"{", 123>>, <<"}", 125>> >>

\* String.prototype.charCodeAt for the characters that occur in the payloads.
charCode(ch) ==
    IF \E i \in 1..Len(Digits) : Digits[i] = ch
    THEN 47 + (CHOOSE i \in 1..Len(Digits) : Digits[i] = ch)
    ELSE IF \E i \in 1..Len(UpperCase) : UpperCase[i] = ch
    THEN 64 + (CHOOSE i \in 1..Len(UpperCase) : UpperCase[i] = ch)
    ELSE IF \E i \in 1..Len(LowerCase) : LowerCase[i] = ch
    THEN 96 + (CHOOSE i \in 1..Len(LowerCase) : LowerCase[i] = ch)
    ELSE Punctuation[CHOOSE i \in 1..Len(Punctuation) : Punctuation[i][1] = ch][2]

\* JavaScript values: undefined, a function, null, a string, a number, or an
\* object whose properties (in insertion order) hold such primitive values.
Undefined == [t |-> "undefined"]
JsFunction == [t |-> "function"]
JsNull == [t |-> "null"]
JsString(s) == [t |-> "string", s |-> s]
JsNumber(n) == [t |-> "number", n |-> n]
JsObject(props) == [t |-> "object", props |-> props]

\* JSON.stringify of a primitive: no text at all for undefined and functions.
Serializable(v) == v.t \notin {"undefined", "function"}
serializePrimitive(v) ==
    CASE v.t = "null"   -> <<"n", "u", "l", "l">>
      [] v.t = "string" -> <<"\"">> \o v.s \o <<"\"">>
      [] v.t = "number" -> IntToString(v.n)

RECURSIVE serializeProps(_, _)
serializeProps(props, first) ==
    IF props = <<>> THEN <<>>
    ELSE LET p == Head(props)
         IN  IF ~Serializable(p.value)
             THEN serializeProps(Tail(props), first)
             ELSE (IF first THEN <<>> ELSE <<",">>) \o
                  <<"\"">> \o p.key \o <<"\"", ":">> \o
                  serializePrimitive(p.value) \o
                  serializeProps(Tail(props), FALSE)

\* JSON.stringify(certificateData): a string, or undefined.
stringify(v) ==
    IF ~Serializable(v) THEN Undefined
    ELSE IF v.t = "object"
    THEN JsString(<<"{">> \o serializeProps(v.props, TRUE) \o <<"}">>)
    ELSE JsString(serializePrimitive(v))

TypeError == "Cannot read properties of undefined (reading 'length')"

\* The hash, or the TypeError thrown by dataString.length when the payload
\* has no serialization.
generateDataHash(certificateData) ==
    LET dataString == stringify(certificateData)
    IN  IF dataString = Undefined THEN Failed(TypeError)
        ELSE Ok(<<"0", "x">> \o
                [k \in 1..HashLength |->
                    LET i == k - 1
                        code == charCode(dataString.s[(i % Len(dataString.s)) + 1])
                    IN  HexDigits[((code + i) % 16) + 1]])

Prop(key, value) == [key |-> key, value |-> value]
Payloads ==
    {Undefined,
     JsNull,
     JsString(<<"a", "b">>),
     JsObject(<<>>),
     JsObject(<<Prop(<<"n", "o", "t", "e">>, Undefined)>>),
     JsObject(<<Prop(<<"i", "d">>, JsString(Sample1Id)),
                Prop(<<"n", "a", "m", "e">>, JsString(Sample2Id)),
                Prop(<<"c", "o", "u", "r", "s", "e">>, JsString(Sample1Id)),
                Prop(<<"y", "e", "a", "r">>, JsNumber(2024))>>)}

\* ---- calls of the service
ChainCall(op, arg) ==
    [op |-> op, arg |-> arg, pc |-> "delay", since |-> clock, result |-> Pending]
ChainReturn(op, arg, result) ==
    [op |-> op, arg |-> arg, pc |-> "done", result |-> result]
ChainInFlight == {i \in 1..Len(chain.log) : chain.log[i].pc # "done"}
CanCallChain ==
    /\ chain.account # Null
    /\ Len(chain.log) < MaxChainCalls
    /\ Cardinality(ChainInFlight) < MaxInFlight
Logged(entry) == chain' = [chain EXCEPT !.log = Append(@, entry)]
Returned(c, result) ==
    chain' = [chain EXCEPT !.log[c] = [@ EXCEPT !.pc = "done", !.result = result]]
ApiUnchanged == UNCHANGED <<storage, remote, calls, loaded, backend, toast>>

newBlockchainService ==
    /\ chain.account = Null
    /\ \E draw \in AccountDraws : chain' = simulateConnection(chain, draw)
    /\ UNCHANGED clock
    /\ ApiUnchanged

issueCertificateOnChain ==
    /\ CanCallChain
    /\ \E certificateId \in ChainIds :
           Logged(ChainCall("issueCertificateOnChain", certificateId))
    /\ UNCHANGED clock
    /\ ApiUnchanged

\* A return that connects the wallet anew, which the source never does.
issueCertificateOnChainReconnects(c) ==
    /\ chain.log[c].op = "issueCertificateOnChain"
    /\ chain.log[c].pc = "delay"
    /\ chain.log[c].since < clock
    /\ \E draw \in ChainHashDraws, again \in AccountDraws :
           chain' = [simulateConnection(chain, again) EXCEPT
                        !.log[c] = [@ EXCEPT !.pc = "done",
                                             !.result = <<"0x", draw>>]]
    /\ UNCHANGED clock
    /\ ApiUnchanged

issueCertificateOnChainReturns(c) ==
    /\ chain.log[c].op = "issueCertificateOnChain"
    /\ chain.log[c].pc = "delay"
    /\ chain.log[c].since < clock
    /\ \E draw \in ChainHashDraws : Returned(c, randomHash(draw))
    /\ UNCHANGED clock
    /\ ApiUnchanged

verifyCertificateOnChainCalled ==
    /\ CanCallChain
    /\ \E certificateId \in ChainIds :
           Logged(ChainCall("verifyCertificateOnChain", certificateId))
    /\ UNCHANGED clock
    /\ ApiUnchanged

verifyCertificateOnChainReturns(c) ==
    /\ chain.log[c].op = "verifyCertificateOnChain"
    /\ chain.log[c].pc = "delay"
    /\ chain.log[c].since < clock
    /\ \E draw \in ChainHashDraws :
           Returned(c, verifyCertificateOnChain(chain, chain.log[c].arg, draw, clock))
    /\ UNCHANGED clock
    /\ ApiUnchanged

getGasEstimateCalled ==
    /\ CanCallChain
    /\ \E functionName \in GasFunctionNames :
           Logged(ChainReturn("getGasEstimate", functionName,
                              getGasEstimate(functionName)))
    /\ UNCHANGED clock
    /\ ApiUnchanged

getCurrentGasPriceCalled ==
    /\ CanCallChain
    /\ \E draw \in GasPriceDraws :
           Logged(ChainReturn("getCurrentGasPrice", draw, getCurrentGasPrice(draw)))
    /\ UNCHANGED clock
    /\ ApiUnchanged

generateDataHashCalled ==
    /\ CanCallChain
    /\ \E certificateData \in Payloads :
           Logged(ChainReturn("generateDataHash", certificateData,
                              generateDataHash(certificateData)))
    /\ UNCHANGED clock
    /\ ApiUnchanged

\* Time passes while a timer of the service is pending: the timer of a call
\* fires once the clock has moved past the call's start.
ChainTick ==
    /\ clock < MaxClock
    /\ \E c \in ChainInFlight : chain.log[c].since = clock
    /\ clock' = clock + 1
    /\ UNCHANGED chain
    /\ ApiUnchanged


\* ------------------------------------------------------------ specification
Init ==
    /\ storage \in {NoItem, UnparseableText, ArrayText(<<>>)}
    /\ remote = <<>>
    /\ clock = ClockStart
    /\ calls = <<>>
    /\ loaded = FALSE
    /\ backend \in {"none", "deployed"}
    /\ toast = "none"
    /\ chain = BlockchainServiceFields

\* No call is suspended: the caller awaits each call before the next.
Idle == InFlight = {}

\* The steps of the calls under way.
Progress ==
    \/ Tick
    \/ \E c \in 1..MaxCalls : FetchRejects(c)
    \/ \E c \in 1..MaxCalls : ResponseRead(c)
    \/ \E c \in 1..MaxCalls : ResponseUnreadable(c)
    \/ \E c \in 1..MaxCalls : Fallback(c)

\* The service used by a caller that awaits each call, with or without a
\* backend.
Next ==
    \/ initializeSampleData
    \/ Idle /\ \E data \in IssueInputs : issue(data)
    \/ Idle /\ \E id \in VerifyIds : verify(id)
    \/ Idle /\ getAll
    \/ Idle /\ healthCheck
    \/ Progress

Spec == Init /\ [][Next]_vars

\* The same service when the platform does its part: every request under way
\* is answered or rejected, and every timer under way fires.
Answered(c) == FetchRejects(c) \/ ResponseRead(c) \/ ResponseUnreadable(c)

\* The fallback's timer has fired: Fallback(c) is enabled exactly then, for
\* fallbackToLocalStorage is defined for every call and every stored text.
DelayOver(c) == c \in 1..Len(calls) /\ calls[c].pc = "delay" /\ clock > calls[c].since

\* Weak fairness of the clock, of each request's answer and of each fallback;
\* the last is WF_vars(Fallback(c)) with its enabling condition written out.
SpecLive ==
    /\ Init /\ [][Next]_vars
    /\ WF_vars(Tick)
    /\ \A c \in 1..MaxCalls :
           /\ WF_vars(Answered(c))
           /\ ([]<>~DelayOver(c) \/ []<><<Fallback(c)>>_vars)

\* The wallet service and the hash utility, called in any order.
NextChain ==
    \/ newBlockchainService
    \/ issueCertificateOnChain
    \/ verifyCertificateOnChainCalled
    \/ getGasEstimateCalled
    \/ getCurrentGasPriceCalled
    \/ generateDataHashCalled
    \/ \E c \in ChainInFlight : issueCertificateOnChainReturns(c)
    \/ \E c \in ChainInFlight : verifyCertificateOnChainReturns(c)
    \/ ChainTick

InitChain == Init /\ storage = NoItem /\ backend = "none"

SpecChain == InitChain /\ [][NextChain]_vars

\* The issue page: certificates are issued through the form's handleSubmit
\* as well as by direct calls of issue.
NextForm ==
    \/ initializeSampleData
    \/ Idle /\ \E data \in FormInputs : issue(data)
    \/ Idle /\ \E formData \in FormInputs : handleSubmit(formData)
    \/ Progress

SpecForm == Init /\ [][NextForm]_vars

\* Overlapping calls without a backend: up to MaxInFlight calls are
\* suspended at once.
InitOverlap == Init /\ backend = "none"

NextOverlap ==
    \/ initializeSampleData
    \/ \E data \in OverlapInputs : issue(data)
    \/ getAll
    \/ Tick
    \/ \E c \in 1..MaxCalls : FetchRejects(c)
    \/ \E c \in 1..MaxCalls : Fallback(c)

SpecOverlap == InitOverlap /\ [][NextOverlap]_vars

\* Requests as they can arrive at run time, where the type is not enforced:
\* a well-typed one, one that also carries _id (the _id of the first
\* sample) and isValid: false, and one that carries the five fields the
\* fallback sets, its certificateId being the second sample's.
UntypedInputs ==
    { IssueCertificateRequest("A", "B", "C"),
      [_id |-> <<"1">>, isValid |-> FALSE] @@ IssueCertificateRequest("Z", "B", "C"),
      [_id |-> <<"2">>, certificateId |-> Sample2Id, issuedAt |-> toISOString(0),
       blockchainHash |-> <<"0x", "body">>, isValid |-> FALSE]
          @@ IssueCertificateRequest("Y", "B", "C") }

\* Overlapping issue calls without a backend whose requests are not held to
\* the IssueCertificateRequest type.
NextUntyped ==
    \/ initializeSampleData
    \/ \E data \in UntypedInputs : issue(data)
    \/ Tick
    \/ \E c \in 1..MaxCalls : FetchRejects(c)
    \/ \E c \in 1..MaxCalls : Fallback(c)

SpecUntyped == InitOverlap /\ [][NextUntyped]_vars

\* Overlapping issue, verify and getAll calls without a backend: the ids
\* verified are those issue can generate.
ReadIds == {generateCertificateId(ClockStart, rnd) : rnd \in RandomTexts}

NextReads ==
    \/ initializeSampleData
    \/ issue(IssueCertificateRequest("A", "B", "C"))
    \/ \E id \in ReadIds : verify(id)
    \/ getAll
    \/ Tick
    \/ \E c \in 1..MaxCalls : FetchRejects(c)
    \/ \E c \in 1..MaxCalls : Fallback(c)

SpecReads == InitOverlap /\ [][NextReads]_vars

\* ------------------------------------------------------------ two instances
\* Two browser tabs, each with its own CertificateAPI, on one localStorage
\* entry and no backend.  A tab runs its code to completion, so nothing of
\* the same tab runs between the load (getItem) and the write-back (setItem)
\* of a fallback issue; the other tab's getItem and setItem can fall
\* between the two.  A call of a tab carries the tab and, between its load
\* and its write-back, the list it holds (the local `certificates`).
Tabs == {"tab1", "tab2"}

\* The tab is not between the load and the write-back of an issue.
TabIdle(tab) ==
    \A c \in 1..Len(calls) : calls[c].tab = tab => calls[c].pc # "loaded"

\* issue(data) called in a tab.
issueInTab(tab, data) ==
    /\ CanInvoke
    /\ TabIdle(tab)
    /\ calls' = Append(calls, [tab |-> tab, local |-> <<>>] @@ NewCall("issue", data))
    /\ UNCHANGED <<storage, remote, clock, loaded, backend, toast, chain>>

\* fetch rejects in the call's tab.
FetchRejectsInTab(c) ==
    /\ c \in 1..Len(calls)
    /\ TabIdle(calls[c].tab)
    /\ FetchRejects(c)

\* The fallback's delay is over and it reads the entry:
\* JSON.parse(localStorage.getItem(STORAGE_KEY) || '[]').
LoadInTab(c) ==
    /\ c \in 1..Len(calls)
    /\ calls[c].pc = "delay"
    /\ clock > calls[c].since
    /\ TabIdle(calls[c].tab)
    /\ LET certificates == getCertificatesFromStorage(storage)
           load == IF storage.kind = "null" THEN "null"
                   ELSE IF storage.parses THEN "array" ELSE "unparseable"
       IN  IF certificates.ok
           THEN Settle(c, [pc |-> "loaded", local |-> certificates.value, load |-> load])
           ELSE Settle(c, [pc |-> "done", since |-> 0, load |-> load,
                           result |-> Failed(SyntaxErrorMessage)])
    /\ UNCHANGED <<storage, remote, clock, loaded, backend, toast, chain>>

\* A write-back that reads the entry again and appends to what it holds now.
SaveInTabReloading(c) ==
    /\ c \in 1..Len(calls)
    /\ calls[c].pc = "loaded"
    /\ getCertificatesFromStorage(storage).ok
    /\ \E rnd \in RandomTexts, draw \in HashDraws :
        LET certificateId == generateCertificateId(clock, rnd)
            cert == newCertificate(ParseObject(StringifyObject(calls[c].arg)),
                                   certificateId, clock, draw)
        IN  /\ storage' = saveCertificatesToStorage(
                              Append(getCertificatesFromStorage(storage).value, cert))
            /\ Settle(c, [pc |-> "done", since |-> 0, localWrote |-> 1,
                          local |-> <<>>, minted |-> {certificateId},
                          result |-> Ok([certificateId |-> certificateId])])
    /\ UNCHANGED <<remote, clock, loaded, backend, toast, chain>>

\* The rest of the fallback issue: the record is built, pushed on the list
\* the call holds, and the whole list is written back.
SaveInTab(c) ==
    /\ c \in 1..Len(calls)
    /\ calls[c].pc = "loaded"
    /\ \E rnd \in RandomTexts, draw \in HashDraws :
        LET certificateId == generateCertificateId(clock, rnd)
            cert == newCertificate(ParseObject(StringifyObject(calls[c].arg)),
                                   certificateId, clock, draw)
        IN  /\ storage' = saveCertificatesToStorage(Append(calls[c].local, cert))
            /\ Settle(c, [pc |-> "done", since |-> 0, localWrote |-> 1,
                          local |-> <<>>, minted |-> {certificateId},
                          result |-> Ok([certificateId |-> certificateId])])
    /\ UNCHANGED <<remote, clock, loaded, backend, toast, chain>>

NextTabs ==
    \/ initializeSampleData
    \/ \E tab \in Tabs, data \in OverlapInputs : issueInTab(tab, data)
    \/ Tick
    \/ \E c \in 1..MaxCalls : FetchRejectsInTab(c)
    \/ \E c \in 1..MaxCalls : LoadInTab(c)
    \/ \E c \in 1..MaxCalls : SaveInTab(c)

SpecTabs == InitOverlap /\ [][NextTabs]_vars

\* ------------------------------------------------------------------ claims
Calls == 1..Len(calls)
Settled(c) == calls[c].pc = "done"

\* The call's request to the backend failed, so the call took the fallback.
FellBack(c) == calls[c].fetched \in {"unreachable", "status400", "status404", "unreadable"}

\* Settled issue call i had returned `id` when call v was invoked.
ReturnedBefore(i, v, id) ==
    /\ i \in calls[v].prior
    /\ calls[i].op = "issue"
    /\ calls[i].result.kind = "ok"
    /\ calls[i].result.value.certificateId = id

EmptyRequiredField(data) ==
    data.recipientName = "" \/ data.courseName = "" \/ data.issuerName = ""

\* C1: every issue call that has completed made exactly one of the two
\* writes: the backend stored the certificate or one record was appended to
\* the local store, never both and never neither.
C1_ExactlyOneWrite ==
    \A c \in Calls :
        (calls[c].op = "issue" /\ Settled(c)) =>
            \/ calls[c].remoteWrote /\ calls[c].localWrote = 0
            \/ ~calls[c].remoteWrote /\ calls[c].localWrote = 1

\* C2: on the fallback path, a verify(id) invoked after an issue call
\* returned id succeeds with a record whose certificateId is id.
C2_VerifyAfterIssue ==
    \A v \in Calls : \A i \in Calls :
        ( /\ calls[v].op = "verify" /\ Settled(v) /\ FellBack(v)
          /\ FellBack(i) /\ ReturnedBefore(i, v, calls[v].arg) )
        => /\ calls[v].result.kind = "ok"
           /\ calls[v].result.value.certificateId = calls[v].arg

C2_Witness ==
    \E v \in Calls : \E i \in Calls :
        /\ calls[v].op = "verify" /\ Settled(v) /\ FellBack(v)
        /\ FellBack(i) /\ ReturnedBefore(i, v, calls[v].arg)
        /\ calls[v].result.kind = "ok"
        /\ Len(getCertificatesFromStorage(storage).value) >= 4

\* C3: on the fallback path, verify(id) of the id an issue(input) returned
\* gives the record that issue created: the input's recipientName,
\* courseName and issuerName, and isValid true.
C3_VerifyReturnsIssuedRecord ==
    \A v \in Calls : \A i \in Calls :
        ( /\ calls[v].op = "verify" /\ Settled(v) /\ FellBack(v)
          /\ FellBack(i) /\ ReturnedBefore(i, v, calls[v].arg) )
        => /\ calls[v].result.kind = "ok"
           /\ calls[v].result.value.recipientName = calls[i].arg.recipientName
           /\ calls[v].result.value.courseName = calls[i].arg.courseName
           /\ calls[v].result.value.issuerName = calls[i].arg.issuerName
           /\ calls[v].result.value.isValid = TRUE

\* The ids issue calls have returned so far, and the ids generated for issue
\* calls so far (by the backend or by the fallback, returned or not).
ReturnedIds ==
    {calls[i].result.value.certificateId :
        i \in {j \in Calls : calls[j].op = "issue" /\ calls[j].result.kind = "ok"}}
MintedIds == UNION {calls[i].minted : i \in Calls}

C5_NotFoundOnlyWhenAbsent ==
    \A v \in Calls : \A i \in Calls :
        ( /\ calls[v].op = "verify" /\ Settled(v)
          /\ ReturnedBefore(i, v, calls[v].arg)
          /\ calls[i].remoteWrote \/ calls[i].localWrote = 1 )
        => calls[v].result # Failed(NotFoundMessage)

\* C6: a verify whose request the backend answered with 404 fails with the
\* not-found error, whatever the local store holds.
C6_Remote404IsNotFound ==
    \A v \in Calls :
        (calls[v].op = "verify" /\ Settled(v) /\ calls[v].fetched = "status404")
        => calls[v].result = Failed(NotFoundMessage)

C8_IssueAndGetAllNeverRaise ==
    \A c \in Calls :
        Settled(c) =>
            /\ (calls[c].op = "issue" /\ ~EmptyRequiredField(calls[c].arg))
               => /\ calls[c].result.kind = "ok"
                  /\ DOMAIN calls[c].result.value = {"certificateId"}
            /\ calls[c].op = "getAll" => calls[c].result.kind = "ok"

\* C9: a call whose fallback loaded the local store from an absent or
\* unparseable entry went on with the empty sequence: the parse failure is
\* not its result, and a getAll among them returns the empty list.
C9_LoadSwallowsParseFailure ==
    \A c \in Calls :
        (Settled(c) /\ calls[c].load \in {"null", "unparseable"})
        => /\ calls[c].result # Failed(SyntaxErrorMessage)
           /\ calls[c].op = "getAll" => calls[c].result = Ok(<<>>)

\* a is a permutation of b.
IsPermutation(a, b) ==
    /\ Len(a) = Len(b)
    /\ \A x \in {a[k] : k \in 1..Len(a)} \cup {b[k] : k \in 1..Len(b)} :
          Cardinality({k \in 1..Len(a) : a[k] = x})
              = Cardinality({k \in 1..Len(b) : b[k] = x})

IssuedAtOf(cert) == getTime(cert.issuedAt)

\* A getAll that settled on the fallback path with a list.
ListedByFallback(g) ==
    /\ calls[g].op = "getAll" /\ Settled(g) /\ FellBack(g)
    /\ calls[g].result.kind = "ok"

\* C10 as claimed: the list getAll returns on the fallback path is a
\* permutation of the local sequence in which every element's issuedAt is
\* later than the next element's.
C10_StrictlyDescending ==
    \A g \in Calls :
        ListedByFallback(g) =>
            LET list == calls[g].result.value
            IN  /\ IsPermutation(list, calls[g].seen)
                /\ \A k \in 1..(Len(list) - 1) :
                      IssuedAtOf(list[k]) > IssuedAtOf(list[k + 1])

\* C10 as amended: the list is a permutation of the local sequence in which
\* every element's issuedAt is later than or equal to the next element's,
\* and records with equal issuedAt keep the order they are stored in.
C10_Descending ==
    \A g \in Calls :
        ListedByFallback(g) =>
            LET list == calls[g].result.value
                stored == calls[g].seen
            IN  /\ IsPermutation(list, stored)
                /\ \A k \in 1..(Len(list) - 1) :
                      IssuedAtOf(list[k]) >= IssuedAtOf(list[k + 1])
                /\ \A t \in {IssuedAtOf(list[k]) : k \in 1..Len(list)} :
                      SelectSeq(list, LAMBDA x : IssuedAtOf(x) = t)
                          = SelectSeq(stored, LAMBDA x : IssuedAtOf(x) = t)

C10_Witness ==
    \E g \in Calls :
        /\ ListedByFallback(g)
        /\ LET list == calls[g].result.value
           IN  /\ Len(list) >= 4
               /\ list # calls[g].seen
               /\ IssuedAtOf(list[1]) = IssuedAtOf(list[2])
               /\ list[1] # list[2]

\* C11: healthCheck never throws: whenever a healthCheck call settles,
\* whatever the backend did and whatever localStorage holds, its result is a
\* {status, timestamp} value: the backend's answer when the request
\* succeeded, the sentinel status with the current time otherwise.
C11_HealthCheckNeverThrows ==
    [][\A c \in Calls :
          (calls[c].op = "healthCheck" /\ ~Settled(c) /\ calls'[c].pc = "done")
          => /\ calls'[c].result.kind = "ok"
             /\ DOMAIN calls'[c].result.value = {"status", "timestamp"}
             /\ IF calls'[c].fetched = "ok"
                THEN calls'[c].result.value = serverHealth(remote, clock).body
                ELSE calls'[c].result.value =
                        [status |-> "localStorage_fallback",
                         timestamp |-> toISOString(clock)]]_vars

C11_Witness ==
    /\ \E c \in Calls :
          /\ calls[c].op = "healthCheck" /\ Settled(c) /\ FellBack(c)
          /\ calls[c].result.kind = "ok"
          /\ calls[c].result.value.status = "localStorage_fallback"
    /\ \E c \in Calls :
          /\ calls[c].op = "healthCheck" /\ Settled(c)
          /\ calls[c].fetched = "ok"

\* The records of the local store, <<>> when the entry is absent or does not
\* parse.
Stored == getCertificatesFromStorage(storage).value

\* The number of records of the store with the given certificateId.
Copies(id) == Cardinality({k \in 1..Len(Stored) : Stored[k].certificateId = id})

\* C12: seeding is idempotent: however often the initializer has run, and
\* whatever issue calls ran in between, the store holds at most one copy of
\* each of the two sample records.
C12_SeedingIsIdempotent ==
    /\ Copies(Sample1Id) <= 1
    /\ Copies(Sample2Id) <= 1

\* The initializer ran on an absent entry, an issue call then appended a
\* record, and the initializer can run again on the store they left.
C12_Witness ==
    /\ loaded
    /\ Len(Stored) >= 3
    /\ Copies(Sample1Id) = 1 /\ Copies(Sample2Id) = 1
    /\ Stored[Len(Stored)].certificateId \notin {Sample1Id, Sample2Id}
    /\ ENABLED initializeSampleData

\* C13: a store that was empty at first access (entry absent, or holding
\* the empty sequence) is populated by the initializer: once the module has
\* loaded, a store that parses begins with the two sample records
\* CERT-2024-SAMPLE1 and CERT-2024-SAMPLE2, so it is not empty.
C13_EmptyStoreIsSeeded ==
    (loaded /\ getCertificatesFromStorage(storage).ok)
    => /\ Len(Stored) >= 2
       /\ Stored[1].certificateId = Sample1Id
       /\ Stored[2].certificateId = Sample2Id

\* C14: round trip of the local store: when a fallback issue has appended
\* its record, loading the store gives the sequence that was stored before
\* with, as its last element, the record the issue built, field for field.
C14_AppendLoadRoundTrip ==
    [][\A c \in Calls :
          ( /\ calls[c].op = "issue" /\ ~Settled(c)
            /\ calls'[c].pc = "done" /\ calls'[c].localWrote = 1 )
          => \E rnd \in RandomTexts, draw \in HashDraws :
                LET cert == newCertificate(ParseObject(StringifyObject(calls[c].arg)),
                                           generateCertificateId(clock, rnd), clock, draw)
                    before == getCertificatesFromStorage(storage)
                    after == getCertificatesFromStorage(storage')
                IN  /\ calls'[c].result = Ok([certificateId |-> cert.certificateId])
                    /\ after.ok
                    /\ Len(after.value) = Len(before.value) + 1
                    /\ after.value[Len(after.value)] = cert
                    /\ SubSeq(after.value, 1, Len(before.value)) = before.value]_vars

\* Two fallback issues have appended to the seeded store.
C14_Witness ==
    /\ Len(Stored) >= 4
    /\ \E c \in Calls : \E d \in Calls :
          /\ c # d
          /\ calls[c].op = "issue" /\ Settled(c) /\ calls[c].localWrote = 1
          /\ calls[d].op = "issue" /\ Settled(d) /\ calls[d].localWrote = 1
          /\ Stored[Len(Stored)].certificateId \in calls[c].minted \cup calls[d].minted

\* The characters of a sequence are all among those of `alphabet`.
AllIn(s, alphabet) ==
    \A k \in 1..Len(s) : \E a \in 1..Len(alphabet) : alphabet[a] = s[k]

\* CERT-YYYY-XXXXXX: 'CERT-', four digits, '-', and exactly six characters,
\* each an uppercase letter or a digit.
MatchesIdPattern(id) ==
    /\ Len(id) = 16
    /\ SubSeq(id, 1, 5) = <<"C", "E", "R", "T", "-">>
    /\ AllIn(SubSeq(id, 6, 9), Digits)
    /\ id[10] = "-"
    /\ AllIn(SubSeq(id, 11, 16), UpperCase \o Digits)

\* C15: the certificateId every successful issue call returns matches
\* CERT-YYYY-XXXXXX, whatever the random source gives.
C15_IdMatchesPattern ==
    \A c \in Calls :
        (calls[c].op = "issue" /\ Settled(c) /\ calls[c].result.kind = "ok")
        => MatchesIdPattern(calls[c].result.value.certificateId)

\* C16: the local store is append-only: no step of an issue, verify, getAll
\* or healthCheck call (nor of the initializer) updates, moves or deletes a
\* record; the records of a store that parses are, after every step, still
\* there at the same positions with every field unchanged.
C16_StoreIsAppendOnly ==
    [][getCertificatesFromStorage(storage).ok
       => /\ getCertificatesFromStorage(storage').ok
          /\ Len(getCertificatesFromStorage(storage').value) >= Len(Stored)
          /\ SubSeq(getCertificatesFromStorage(storage').value, 1, Len(Stored))
                = Stored]_vars

\* An issue has appended to the seeded store and a getAll and a verify have
\* then read it on the fallback path, the getAll sorting what it loaded
\* into another order.
C16_Witness ==
    /\ Len(Stored) >= 3
    /\ \E g \in Calls :
          /\ ListedByFallback(g)
          /\ Len(calls[g].seen) >= 3
          /\ calls[g].result.value # calls[g].seen
          /\ \E v \in Calls :
                /\ g \in calls[v].prior
                /\ calls[v].op = "verify" /\ Settled(v) /\ FellBack(v)
                /\ calls[v].result.kind = "ok"

\* C17: every record of the local store has isValid = true, whatever the
\* issue requests contained (an isValid: false among them).
C17_EveryRecordIsValid ==
    \A k \in 1..Len(Stored) : Stored[k].isValid = TRUE

\* The store holds the record of a request that carried isValid: false.
C17_Witness ==
    \E c \in Calls :
        /\ calls[c].op = "issue" /\ Settled(c) /\ calls[c].localWrote = 1
        /\ "isValid" \in DOMAIN calls[c].arg /\ calls[c].arg.isValid = FALSE
        /\ \E k \in 1..Len(Stored) :
              /\ Stored[k].certificateId \in calls[c].minted
              /\ Stored[k].recipientName = calls[c].arg.recipientName
              /\ Stored[k].isValid = TRUE

\* C18: no two records of the local store share an _id, and the _id of a
\* record an issue call created is the one generated for it, never the one
\* its request carried.
C18_RecordIdIsUnique ==
    /\ \A j \in 1..Len(Stored) : \A k \in 1..Len(Stored) :
          j # k => Stored[j]._id # Stored[k]._id
    /\ \A c \in Calls :
          ( /\ calls[c].op = "issue" /\ Settled(c) /\ calls[c].localWrote = 1
            /\ "_id" \in DOMAIN calls[c].arg )
          => \A k \in 1..Len(Stored) :
                Stored[k].certificateId \in calls[c].minted
                => Stored[k]._id # calls[c].arg._id

\* Issue call i has completed with its record appended to the local store.
Wrote(i) == calls[i].op = "issue" /\ Settled(i) /\ calls[i].localWrote = 1

\* The number of seeded records at the head of the store.
SeededCount ==
    IF /\ Len(Stored) >= 2
       /\ Stored[1].certificateId = Sample1Id
       /\ Stored[2].certificateId = Sample2Id
    THEN 2 ELSE 0

\* The store holds the seeded records and one record for each issue that
\* appended: none has been overwritten.
NothingOverwritten ==
    getCertificatesFromStorage(storage).ok
    => /\ Len(Stored) = SeededCount + Cardinality({i \in Calls : Wrote(i)})
       /\ \A i \in Calls :
             Wrote(i) => \E k \in 1..Len(Stored) :
                            Stored[k].certificateId \in calls[i].minted

\* C19: read-your-writes among overlapping calls on the fallback path: after
\* every step no record an issue appended has been overwritten, and a
\* getAll or verify whose fallback loads the store after an issue completed
\* sees that issue's record: the getAll loads all of the store, the
\* issue's record in it, and the verify of the issue's id finds a record
\* with that id.
C19_ReadYourWrites ==
    [][/\ NothingOverwritten'
       /\ \A r \in Calls :
             (~Settled(r) /\ calls'[r].pc = "done" /\ calls'[r].load = "array")
             => \A i \in Calls :
                   Wrote(i) =>
                      /\ calls[r].op = "getAll"
                         => /\ calls'[r].seen = Stored
                            /\ \E k \in 1..Len(calls'[r].seen) :
                                  calls'[r].seen[k].certificateId \in calls[i].minted
                      /\ (calls[r].op = "verify" /\ calls[r].arg \in calls[i].minted)
                         => /\ calls'[r].result.kind = "ok"
                            /\ calls'[r].result.value.certificateId = calls[r].arg]_vars

\* Two issues have appended, and a getAll that was invoked before one of
\* them completed, and loaded after, lists the records of both.
C19_Witness ==
    \E g \in Calls : \E i \in Calls : \E j \in Calls :
        /\ i # j /\ Wrote(i) /\ Wrote(j)
        /\ ListedByFallback(g)
        /\ i \notin calls[g].prior
        /\ Len(calls[g].seen) = SeededCount + 2
        /\ \E k \in 1..Len(calls[g].seen) :
              calls[g].seen[k].certificateId \in calls[i].minted

\* C20: with two instances on one storage key the last write wins on the
\* whole collection: the write-back of an issue leaves in the store the list
\* that issue had loaded with its own record appended, whatever the other
\* instance has written since the load.
C20_LastWriteWins ==
    [][\A c \in Calls :
          (calls[c].pc = "loaded" /\ calls'[c].pc = "done")
          => LET after == getCertificatesFromStorage(storage').value
             IN  /\ calls'[c].result.kind = "ok"
                 /\ Len(after) = Len(calls[c].local) + 1
                 /\ SubSeq(after, 1, Len(calls[c].local)) = calls[c].local
                 /\ after[Len(after)].certificateId
                       = calls'[c].result.value.certificateId]_vars

\* The race: two issue calls, one in each tab, have both returned a
\* certificateId (two different ids) and the store holds, after the seeded
\* records, the record of one of them only.
C20_Witness ==
    \E a \in Calls : \E b \in Calls :
        /\ calls[a].tab # calls[b].tab
        /\ Wrote(a) /\ Wrote(b)
        /\ calls[a].result.value.certificateId # calls[b].result.value.certificateId
        /\ Cardinality({c \in Calls : Wrote(c)}) = 2
        /\ Len(Stored) = SeededCount + 1
        /\ Stored[Len(Stored)].certificateId = calls[b].result.value.certificateId
        /\ \A k \in 1..Len(Stored) :
              Stored[k].certificateId # calls[a].result.value.certificateId

\* C21: the fallback store does not enforce certificateId uniqueness: a
\* fallback issue whose load succeeded appends its record whether or not the
\* generated id is already in the store, so the number of records with that
\* id grows by one at every such issue.
C21_NoCollisionCheck ==
    [][\A c \in Calls :
          ( /\ calls[c].op = "issue" /\ calls[c].pc = "delay"
            /\ calls'[c].pc = "done" /\ getCertificatesFromStorage(storage).ok )
          => /\ calls'[c].result.kind = "ok"
             /\ calls'[c].localWrote = 1
             /\ LET id == calls'[c].result.value.certificateId
                    after == getCertificatesFromStorage(storage').value
                IN  Cardinality({k \in 1..Len(after) : after[k].certificateId = id})
                       = Copies(id) + 1]_vars

\* Two records of the store share one certificateId.
C21_Witness ==
    \E j \in 1..Len(Stored) : \E k \in 1..Len(Stored) :
        /\ j < k
        /\ Stored[j].certificateId = Stored[k].certificateId
        /\ Stored[j].recipientName # Stored[k].recipientName

\* C22: the local lookup is a linear scan in insertion order: a verify that
\* settles on the fallback with a store that parses returns the earliest
\* stored record whose certificateId is the key it looks up, and fails with
\* the not-found error when no record has it.
C22_LookupReturnsFirstMatch ==
    [][\A v \in Calls :
          ( /\ calls[v].op = "verify" /\ calls[v].pc = "delay"
            /\ calls'[v].pc = "done" /\ getCertificatesFromStorage(storage).ok )
          => LET key == LastSegment(endpointOf(calls[v]))
                 matches == {k \in 1..Len(Stored) : Stored[k].certificateId = key}
             IN  IF matches = {}
                 THEN calls'[v].result = Failed(NotFoundMessage)
                 ELSE calls'[v].result =
                         Ok(Stored[CHOOSE k \in matches : \A j \in matches : k <= j])]_vars

\* A verify has returned the earlier of two different records that share
\* the certificateId it asked for.
C22_Witness ==
    \E v \in Calls : \E j \in 1..Len(Stored) : \E k \in 1..Len(Stored) :
        /\ calls[v].op = "verify" /\ Settled(v) /\ FellBack(v)
        /\ j < k
        /\ Stored[j].certificateId = calls[v].arg
        /\ Stored[k].certificateId = calls[v].arg
        /\ Stored[j] # Stored[k]
        /\ calls[v].result = Ok(Stored[j])

\* C23: verify, getAll and healthCheck leave the local storage entry as it
\* is on every path, the sort of getAll included; after seeding, the only
\* step that writes the entry is the fallback of an issue.
C23_ReadsLeaveStorageUnchanged ==
    [][storage' # storage
       => \/ storage.kind = "null" /\ loaded'
          \/ \E c \in Calls :
                /\ calls[c].op = "issue" /\ calls[c].pc = "delay"
                /\ calls'[c].pc = "done" /\ calls'[c].localWrote = 1]_vars

\* A getAll, a verify and a healthCheck have settled, the getAll on the
\* fallback with a list in another order than the stored one, and the
\* store still holds the seeded records in insertion order.
C23_Witness ==
    /\ \E g \in Calls :
          /\ ListedByFallback(g)
          /\ calls[g].result.value # calls[g].seen
          /\ calls[g].seen = Stored
    /\ \E v \in Calls : calls[v].op = "verify" /\ Settled(v)
    /\ \E h \in Calls : calls[h].op = "healthCheck" /\ Settled(h) /\ FellBack(h)
    /\ SeededCount = 2

\* ------------------------------------------------------- BlockchainService
ChainCalls == 1..Len(chain.log)
ChainDone(op) == {c \in ChainCalls : chain.log[c].op = op /\ chain.log[c].pc = "done"}
IssuedOnChainBefore(id, v) ==
    \E i \in ChainDone("issueCertificateOnChain") : i < v /\ chain.log[i].arg = id

\* C24: verifyCertificateOnChain(id) resolves, whatever issueCertificateOnChain
\* calls came before it, with a non-null record whose certificateId is id,
\* whose issuer is 'Verified Issuer', whose isValid is true, and whose hash is
\* one of the hashes fabricated for the call.
C24_ChainVerifyIgnoresIssues ==
    \A v \in ChainDone("verifyCertificateOnChain") :
        LET r == chain.log[v].result
        IN  /\ r # Null
            /\ DOMAIN r = {"certificateId", "hash", "timestamp", "issuer", "isValid"}
            /\ r.certificateId = chain.log[v].arg
            /\ r.issuer = "Verified Issuer"
            /\ r.isValid = TRUE
            /\ r.hash \in {randomHash(d) : d \in ChainHashDraws}
            /\ r.timestamp \in (chain.log[v].since + 1)..clock

\* A verification of an id issued on chain before it, one of an id never
\* issued on chain, and two verifications of one id with different hashes.
C24_Witness ==
    \E v, w \in ChainDone("verifyCertificateOnChain") :
        /\ v # w
        /\ IssuedOnChainBefore(chain.log[v].arg, v)
        /\ \A i \in ChainCalls :
               chain.log[i].op = "issueCertificateOnChain"
                   => chain.log[i].arg # chain.log[w].arg
        /\ chain.log[v].result.isValid
        /\ chain.log[w].result.isValid
        /\ chain.log[v].result.hash # chain.log[w].result.hash

IsAddress(a) ==
    /\ a # Null
    /\ Len(a) = 2 + AccountLength
    /\ a[1] = "0" /\ a[2] = "x"
    /\ \A i \in 3..Len(a) : \E h \in 1..Len(HexDigits) : HexDigits[h] = a[i]

\* C25: once constructed the service is connected and its account is '0x'
\* followed by 40 hex digits, and no step (issueCertificateOnChain,
\* verifyCertificateOnChain, getGasEstimate, getCurrentGasPrice, their
\* returns) changes isWalletConnected() or getAccount().
C25_WalletStateIsFixed ==
    [][/\ chain'.account # Null
           => isWalletConnected(chain') /\ IsAddress(getAccount(chain'))
       /\ chain.account # Null
           => /\ isWalletConnected(chain') = isWalletConnected(chain)
              /\ getAccount(chain') = getAccount(chain)]_vars

\* The service is connected after an issue, a verification and a gas query
\* have all returned.
C25_Witness ==
    /\ isWalletConnected(chain)
    /\ IsAddress(getAccount(chain))
    /\ ChainDone("issueCertificateOnChain") # {}
    /\ ChainDone("verifyCertificateOnChain") # {}
    /\ ChainDone("getGasEstimate") \cup ChainDone("getCurrentGasPrice") # {}

IsHexDigit(ch) == \E h \in 1..Len(HexDigits) : HexDigits[h] = ch
DigitOf(text, i) == HexDigits[((charCode(text[(i % Len(text)) + 1]) + i) % 16) + 1]
IsDataHashOf(h, text) ==
    /\ Len(h) = 2 + HashLength
    /\ h[1] = "0" /\ h[2] = "x"
    /\ \A i \in 0..(HashLength - 1) : IsHexDigit(h[i + 3]) /\ h[i + 3] = DigitOf(text, i)

\* C26: for every payload generateDataHash returns '0x' followed by exactly 64
\* hex digits, digit i being (code of serialized[i mod length] + i) mod 16, so
\* that payloads with equal serializations get equal hashes.
C26_DataHashOfEveryPayload ==
    /\ \A c \in ChainDone("generateDataHash") :
           /\ chain.log[c].result.kind = "ok"
           /\ stringify(chain.log[c].arg) # Undefined
           /\ IsDataHashOf(chain.log[c].result.value, stringify(chain.log[c].arg).s)
    /\ \A c, d \in ChainDone("generateDataHash") :
           stringify(chain.log[c].arg) = stringify(chain.log[d].arg)
               => chain.log[c].result = chain.log[d].result

\* The same statement for the payloads JSON.stringify turns into a string.
C26_DataHashOfSerializedPayload ==
    /\ \A c \in ChainDone("generateDataHash") :
           stringify(chain.log[c].arg) # Undefined
               => /\ chain.log[c].result.kind = "ok"
                  /\ IsDataHashOf(chain.log[c].result.value, stringify(chain.log[c].arg).s)
    /\ \A c, d \in ChainDone("generateDataHash") :
           stringify(chain.log[c].arg) = stringify(chain.log[d].arg)
               => chain.log[c].result = chain.log[d].result

C26_Witness ==
    \E c, d, e \in ChainDone("generateDataHash") :
        /\ chain.log[c].arg # chain.log[d].arg
        /\ stringify(chain.log[c].arg) = stringify(chain.log[d].arg)
        /\ stringify(chain.log[c].arg) # Undefined
        /\ chain.log[c].result = chain.log[d].result
        /\ stringify(chain.log[e].arg) # Undefined
        /\ Len(stringify(chain.log[e].arg).s) > HashLength
        /\ chain.log[e].result.kind = "ok"

\* ---------------------------------------------------------------- settling
\* C27: every invoked issue, verify and getAll eventually settles with a
\* result or an error, and on its way it makes one request (it starts in
\* "fetch" and never returns to it) and takes the fallback at most once (it
\* enters "delay" at most once, from "fetch"), and a settled call stays settled
\* with the result it has.
C27_EveryCallSettles ==
    /\ [][\A c \in Calls :
            /\ calls'[c].op = calls[c].op
            /\ calls'[c].pc # calls[c].pc
                 => <<calls[c].pc, calls'[c].pc>> \in
                        {<<"fetch", "delay">>, <<"fetch", "done">>, <<"delay", "done">>}
            /\ calls'[c].pc = "done" => calls'[c].result.kind \in {"ok", "error"}
            /\ calls[c].pc = "done" => calls'[c] = calls[c]]_vars
    /\ \A c \in 1..MaxCalls :
           (c <= Len(calls) /\ calls[c].op \in {"issue", "verify", "getAll"})
               ~> (c <= Len(calls) /\ calls[c].pc = "done")

\* Calls of the three kinds have settled after a fallback, one with a result
\* and one with an error.
C27_Witness ==
    /\ \A c \in Calls : Settled(c) /\ FellBack(c)
    /\ {calls[c].op : c \in Calls} = {"issue", "verify", "getAll"}
    /\ \E c, d \in Calls : calls[c].result.kind = "ok" /\ calls[d].result.kind = "error"

\* ------------------------------------------------- fields of a request body
\* C28: whatever fields the request body of a fallback issue carries, the
\* record appended to the store has the certificateId returned to the caller
\* and the generated _id, issuedAt and blockchainHash, and isValid = true.
C28_AppendedRecordIsGenerated ==
    [][\A c \in Calls :
          (/\ calls[c].op = "issue"
           /\ calls[c].pc = "delay"
           /\ calls'[c].pc = "done"
           /\ calls'[c].localWrote = 1)
          => LET after == getCertificatesFromStorage(storage').value
                 rec == after[Len(after)]
             IN  /\ calls'[c].result.kind = "ok"
                 /\ rec.certificateId = calls'[c].result.value.certificateId
                 /\ rec._id = IntToString(clock)
                 /\ rec.issuedAt = toISOString(clock)
                 /\ rec.blockchainHash \in {generateBlockchainHash(d) : d \in HashDraws}
                 /\ rec.isValid = TRUE]_vars

\* The same for the three fields spread after the body, which the body cannot
\* set.
C28_LaterFieldsAreGenerated ==
    [][\A c \in Calls :
          (/\ calls[c].op = "issue"
           /\ calls[c].pc = "delay"
           /\ calls'[c].pc = "done"
           /\ calls'[c].localWrote = 1)
          => LET after == getCertificatesFromStorage(storage').value
                 rec == after[Len(after)]
             IN  /\ calls'[c].result.kind = "ok"
                 /\ rec.issuedAt = toISOString(clock)
                 /\ rec.blockchainHash \in {generateBlockchainHash(d) : d \in HashDraws}
                 /\ rec.isValid = TRUE]_vars

\* ------------------------------------------------------ the key of a lookup
\* C29: on the fallback path verify(id) returns a record only if the record's
\* certificateId equals id in full, also for an id that contains '/'; it never
\* returns a record that matches only the text after the last '/' of id.
C29_LookupByFullId ==
    \A v \in Calls :
        ( /\ calls[v].op = "verify" /\ Settled(v) /\ FellBack(v)
          /\ calls[v].result.kind = "ok" )
        => calls[v].result.value.certificateId = calls[v].arg

\* ----------------------------------------------- two stores, one certificate
\* C30: whatever the backend's availability at each later call, a verify of
\* an id that a successful issue returned gives a record with that
\* certificateId, and a getAll gives a list that contains such a record.
C30_IssuedStaysVerifiableAndListed ==
    \A i \in Calls : \A r \in Calls :
        ( /\ calls[i].op = "issue" /\ Settled(i) /\ calls[i].result.kind = "ok"
          /\ Settled(r) /\ i \in calls[r].prior )
        => LET id == calls[i].result.value.certificateId
           IN  /\ (calls[r].op = "verify" /\ calls[r].arg = id)
                    => /\ calls[r].result.kind = "ok"
                       /\ calls[r].result.value.certificateId = id
               /\ calls[r].op = "getAll"
                    => /\ calls[r].result.kind = "ok"
                       /\ \E k \in 1..Len(calls[r].result.value) :
                              calls[r].result.value[k].certificateId = id

====
